---- MODULE Spec2Model ----
(***************************************************************************)
(* Gary's Accounting Bot (src/main.py): the message-driven confirmation    *)
(* state machine, the time/pay parser and the sheet gateway.               *)
(*                                                                         *)
(* Text is modelled as sequences of one-character strings, so that the     *)
(* substring tests, lower()/strip()/split() and the time-range regular     *)
(* expression are computed, not assumed.  Hours are kept in minutes and    *)
(* money in tenths of a penny.                                             *)
(***************************************************************************)
EXTENDS Integers, Sequences, FiniteSets, TLC

----------------------------------------------------------------------------
(* Text literals *)

TokAdmin ==
    <<"a", "d", "m", "i", "n">>
TokHelp ==
    <<"h", "e", "l", "p">>
TokStatus ==
    <<"s", "t", "a", "t", "u", "s">>
TokStats ==
    <<"s", "t", "a", "t", "s">>
TokTest ==
    <<"t", "e", "s", "t">>
TokClear ==
    <<"c", "l", "e", "a", "r">>
TokLast ==
    <<"l", "a", "s", "t">>
TokYes ==
    <<"y", "e", "s">>
TokY ==
    <<"y">>
TokConfirm ==
    <<"c", "o", "n", "f", "i", "r", "m">>
TokOk ==
    <<"o", "k">>
TokNo ==
    <<"n", "o">>
TokN ==
    <<"n">>
TokCancel ==
    <<"c", "a", "n", "c", "e", "l">>
KwWorked ==
    <<"w", "o", "r", "k", "e", "d">>
KwWork ==
    <<"w", "o", "r", "k">>
KwTill ==
    <<"t", "i", "l", "l">>
KwTil ==
    <<"t", "i", "l">>
KwUntil ==
    <<"u", "n", "t", "i", "l">>
KwTo ==
    <<"t", "o">>
KwColon ==
    <<":">>
KwDash ==
    <<"-">>
KwNormal ==
    <<"n", "o", "r", "m", "a", "l">>
KwStandard ==
    <<"s", "t", "a", "n", "d", "a", "r", "d">>
KwDay ==
    <<"d", "a", "y">>
KwSaturday ==
    <<"s", "a", "t", "u", "r", "d", "a", "y">>
KwSunday ==
    <<"s", "u", "n", "d", "a", "y">>
KwWeekend ==
    <<"w", "e", "e", "k", "e", "n", "d">>
T0730 ==
    <<"0", "7", ":", "3", "0">>
T1600 ==
    <<"1", "6", ":", "0", "0">>
T0800 ==
    <<"0", "8", ":", "0", "0">>
T1300 ==
    <<"1", "3", ":", "0", "0">>
Day1 ==
    <<"2", "0", "2", "6", "-", "1", "1", "-", "0", "5">>
Day2 ==
    <<"2", "0", "2", "6", "-", "1", "1", "-", "0", "6">>
Day0 ==
    <<"2", "0", "2", "6", "-", "1", "1", "-", "0", "4">>
HdrDate ==
    <<"D", "a", "t", "e">>
HdrStart ==
    <<"S", "t", "a", "r", "t">>
HdrEnd ==
    <<"E", "n", "d">>
HdrHours ==
    <<"H", "o", "u", "r", "s">>
Blank ==
    <<>>
Placeholder ==
    <<"-">>
Formula ==
    <<"=", "C", "-", "B">>
UpperCase ==
    <<"A", "B", "C", "D", "E", "F", "G", "H", "I", "J", "K", "L", "M", "N", "O", "P", "Q", "R", "S", "T", "U", "V", "W", "X", "Y", "Z">>
LowerCase ==
    <<"a", "b", "c", "d", "e", "f", "g", "h", "i", "j", "k", "l", "m", "n", "o", "p", "q", "r", "s", "t", "u", "v", "w", "x", "y", "z">>
Digits ==
    <<"0", "1", "2", "3", "4", "5", "6", "7", "8", "9">>
\* 'YES'
MsgYES ==
    <<"Y", "E", "S">>
\* 'y'
MsgY ==
    <<"y">>
\* 'confirm'
MsgConfirm ==
    <<"c", "o", "n", "f", "i", "r", "m">>
\* ' ok '
MsgOk ==
    <<" ", "o", "k", " ">>
\* 'No'
MsgNo ==
    <<"N", "o">>
\* 'n'
MsgN ==
    <<"n">>
\* 'cancel'
MsgCancel ==
    <<"c", "a", "n", "c", "e", "l">>
\* 'yes please'
MsgYesPlease ==
    <<"y", "e", "s", " ", "p", "l", "e", "a", "s", "e">>
\* 'help'
MsgHelp ==
    <<"h", "e", "l", "p">>
\* 'status'
MsgStatus ==
    <<"s", "t", "a", "t", "u", "s">>
\* 'hello'
MsgHello ==
    <<"h", "e", "l", "l", "o">>
\* 'worked 7:30 till 17:00'
MsgOvertime ==
    <<"w", "o", "r", "k", "e", "d", " ", "7", ":", "3", "0", " ", "t", "i", "l", "l", " ", "1", "7", ":", "0", "0">>
\* 'Worked normal day'
MsgNormal ==
    <<"W", "o", "r", "k", "e", "d", " ", "n", "o", "r", "m", "a", "l", " ", "d", "a", "y">>
\* '8:00 - 13:00 saturday'
MsgSaturday ==
    <<"8", ":", "0", "0", " ", "-", " ", "1", "3", ":", "0", "0", " ", "s", "a", "t", "u", "r", "d", "a", "y">>
\* 'worked 25:00 till 16:00'
MsgBadHour ==
    <<"w", "o", "r", "k", "e", "d", " ", "2", "5", ":", "0", "0", " ", "t", "i", "l", "l", " ", "1", "6", ":", "0", "0">>
\* '7:30 to 16:75'
MsgBadMinute ==
    <<"7", ":", "3", "0", " ", "t", "o", " ", "1", "6", ":", "7", "5">>
\* 'worked today'
MsgNoRange ==
    <<"w", "o", "r", "k", "e", "d", " ", "t", "o", "d", "a", "y">>
\* 'admin'
MsgAdmin ==
    <<"a", "d", "m", "i", "n">>
\* 'admin help'
MsgAdminHelp ==
    <<"a", "d", "m", "i", "n", " ", "h", "e", "l", "p">>
\* 'admin status'
MsgAdminStatus ==
    <<"a", "d", "m", "i", "n", " ", "s", "t", "a", "t", "u", "s">>
\* 'admin stats'
MsgAdminStats ==
    <<"a", "d", "m", "i", "n", " ", "s", "t", "a", "t", "s">>
\* 'admin test'
MsgAdminTest ==
    <<"a", "d", "m", "i", "n", " ", "t", "e", "s", "t">>
\* 'Admin Clear'
MsgAdminClear ==
    <<"A", "d", "m", "i", "n", " ", "C", "l", "e", "a", "r">>
\* 'admin last'
MsgAdminLast ==
    <<"a", "d", "m", "i", "n", " ", "l", "a", "s", "t">>
\* 'admin foo'
MsgAdminFoo ==
    <<"a", "d", "m", "i", "n", " ", "f", "o", "o">>
\* 'admin worked normal day'
MsgAdminNormal ==
    <<"a", "d", "m", "i", "n", " ", "w", "o", "r", "k", "e", "d", " ", "n", "o", "r", "m", "a", "l", " ", "d", "a", "y">>
Messages ==
    {MsgYES, MsgY, MsgConfirm, MsgOk, MsgNo,
     MsgN, MsgCancel, MsgYesPlease, MsgHelp, MsgStatus,
     MsgHello, MsgOvertime, MsgNormal, MsgSaturday, MsgBadHour,
     MsgBadMinute, MsgNoRange, MsgAdmin, MsgAdminHelp, MsgAdminStatus,
     MsgAdminStats, MsgAdminTest, MsgAdminClear, MsgAdminLast, MsgAdminFoo,
     MsgAdminNormal}

----------------------------------------------------------------------------
(* str helpers *)

SetMin(S) ==
    CHOOSE x \in S : \A y \in S : x <= y

SetMax(S) ==
    CHOOSE x \in S : \A y \in S : x >= y

IsSpace(c) ==
    c = " "

IsDigit(c) ==
    \E i \in 1..10 : Digits[i] = c

DigitVal(c) ==
    (CHOOSE i \in 1..10 : Digits[i] = c) - 1

LowerChar(c) ==
    IF \E i \in 1..26 : UpperCase[i] = c
    THEN LowerCase[CHOOSE i \in 1..26 : UpperCase[i] = c]
    ELSE c

\* str.lower()
Lower(s) ==
    [i \in 1..Len(s) |-> LowerChar(s[i])]

\* str.strip()
Strip(s) ==
    LET keep == {i \in 1..Len(s) : ~IsSpace(s[i])}
    IN  IF keep = {} THEN <<>> ELSE SubSeq(s, SetMin(keep), SetMax(keep))

\* sub in s
Contains(sub, s) ==
    \E i \in 1..(Len(s) - Len(sub) + 1) : SubSeq(s, i, i + Len(sub) - 1) = sub

\* s.startswith(p), also used at an offset by the regular expression
MatchAt(p, s, i) ==
    /\ i >= 1
    /\ i + Len(p) - 1 <= Len(s)
    /\ SubSeq(s, i, i + Len(p) - 1) = p

StartsWith(s, p) ==
    MatchAt(p, s, 1)

\* s.split(): the whitespace-separated words of s
RECURSIVE SplitFrom(_, _)
SplitFrom(s, i) ==
    IF i > Len(s) THEN <<>>
    ELSE IF IsSpace(s[i]) THEN SplitFrom(s, i + 1)
    ELSE LET stops == {j \in i..Len(s) : IsSpace(s[j])}
             e == IF stops = {} THEN Len(s) + 1 ELSE SetMin(stops)
         IN  <<SubSeq(s, i, e - 1)>> \o SplitFrom(s, e)

Split(s) ==
    SplitFrom(s, 1)

\* s.split(':')
SplitColon(s) ==
    LET colons == {i \in 1..Len(s) : s[i] = ":"}
        RECURSIVE From(_)
        From(i) ==
            LET later == {j \in colons : j >= i}
            IN  IF later = {} THEN <<SubSeq(s, i, Len(s))>>
                ELSE <<SubSeq(s, i, SetMin(later) - 1)>> \o From(SetMin(later) + 1)
    IN  From(1)

\* int(s) is defined for a non-empty string of digits and raises otherwise
IsInt(s) ==
    Len(s) > 0 /\ \A i \in 1..Len(s) : IsDigit(s[i])

RECURSIVE ToInt(_)
ToInt(s) ==
    IF Len(s) = 0 THEN 0
    ELSE 10 * ToInt(SubSeq(s, 1, Len(s) - 1)) + DigitVal(s[Len(s)])

----------------------------------------------------------------------------
(* Configuration, GaryBot.__init__ *)

\* tenths of a penny: 320.11 pounds
DAILY_RATE ==
    320110

\* tenths of a penny per hour: 61.56 pounds
OVERTIME_RATE ==
    61560

GARY_PHONE ==
    "+447827491339"

ADMIN_PHONE ==
    "+447831971523"

\* an identity outside the allow-list
OTHER_PHONE ==
    "+440000000000"

Phones ==
    {GARY_PHONE, ADMIN_PHONE, OTHER_PHONE}

\* faulty variant: the allow-list is not consulted
is_authorized_anyone(phone_number) ==
    phone_number \in Phones

is_authorized(phone_number) ==
    phone_number \in {GARY_PHONE, ADMIN_PHONE}

\* faulty variant: every authorized sender passes for the admin
is_admin_any_authorized(phone_number) ==
    phone_number \in {GARY_PHONE, ADMIN_PHONE}

is_admin(phone_number) ==
    phone_number = ADMIN_PHONE

----------------------------------------------------------------------------
(* Time expression parser *)

is_time_message(message) ==
    \E keyword \in {KwWorked, KwWork, KwTill, KwUntil, KwTo, KwColon,
                    KwNormal, KwDay, KwSaturday, KwSunday} :
        Contains(keyword, message)

\* faulty variant: the hour is not range-checked
is_valid_24hour_time_any_hour(time_str) ==
    LET parts == SplitColon(time_str)
    IN  IF Len(parts) # 2 THEN FALSE
        ELSE IF ~IsInt(parts[1]) \/ ~IsInt(parts[2]) THEN FALSE
        ELSE LET minute == ToInt(parts[2])
             IN  0 <= minute /\ minute <= 59

is_valid_24hour_time(time_str) ==
    LET parts == SplitColon(time_str)
    IN  IF Len(parts) # 2 THEN FALSE
        ELSE IF ~IsInt(parts[1]) \/ ~IsInt(parts[2]) THEN FALSE
        ELSE LET hour == ToInt(parts[1])
                 minute == ToInt(parts[2])
             IN  0 <= hour /\ hour <= 23 /\ 0 <= minute /\ minute <= 59

\* faulty variant: a range that crosses midnight is not wrapped
calculate_hours_between_same_day(start_time, end_time) ==
    LET s == SplitColon(start_time)
        e == SplitColon(end_time)
        start_total_min == ToInt(s[1]) * 60 + ToInt(s[2])
        end_total_min == ToInt(e[1]) * 60 + ToInt(e[2])
    IN  end_total_min - start_total_min

\* minutes between two 24-hour times (the code returns this / 60.0)
calculate_hours_between(start_time, end_time) ==
    LET s == SplitColon(start_time)
        e == SplitColon(end_time)
        start_total_min == ToInt(s[1]) * 60 + ToInt(s[2])
        end_total_min == ToInt(e[1]) * 60 + ToInt(e[2])
        end_wrapped == IF end_total_min < start_total_min
                       THEN end_total_min + 24 * 60
                       ELSE end_total_min
    IN  end_wrapped - start_total_min

\* \d{1,2}:\d{2} at position i: the index after the match, 0 when none
TimeEnd(s, i) ==
    LET dig(j) == j >= 1 /\ j <= Len(s) /\ IsDigit(s[j])
        col(j) == j >= 1 /\ j <= Len(s) /\ s[j] = ":"
    IN  IF dig(i) /\ dig(i + 1) /\ col(i + 2) /\ dig(i + 3) /\ dig(i + 4) THEN i + 5
        ELSE IF dig(i) /\ col(i + 1) /\ dig(i + 2) /\ dig(i + 3) THEN i + 4
        ELSE 0

\* \s* from position i: the index of the first non-space character
RECURSIVE SkipSpaces(_, _)
SkipSpaces(s, i) ==
    IF i <= Len(s) /\ IsSpace(s[i]) THEN SkipSpaces(s, i + 1) ELSE i

\* (?:till?|to|until|-) at position i: the index after the match, 0 when none
ConnectorEnd(s, i) ==
    IF MatchAt(KwTill, s, i) THEN i + 4
    ELSE IF MatchAt(KwTil, s, i) THEN i + 3
    ELSE IF MatchAt(KwTo, s, i) THEN i + 2
    ELSE IF MatchAt(KwUntil, s, i) THEN i + 5
    ELSE IF MatchAt(KwDash, s, i) THEN i + 1
    ELSE 0

\* the whole pattern anchored at position i: <<group 1, group 2>> or <<>>
TimeRangeAt(s, i) ==
    LET e1 == TimeEnd(s, i)
        c  == IF e1 = 0 THEN 0 ELSE ConnectorEnd(s, SkipSpaces(s, e1))
        b2 == IF c = 0 THEN 0 ELSE SkipSpaces(s, c)
        e2 == IF b2 = 0 THEN 0 ELSE TimeEnd(s, b2)
    IN  IF e2 = 0 THEN <<>>
        ELSE <<SubSeq(s, i, e1 - 1), SubSeq(s, b2, e2 - 1)>>

\* re.search: the leftmost match
TimeRangeSearch(s) ==
    LET hits == {i \in 1..Len(s) : TimeRangeAt(s, i) # <<>>}
    IN  IF hits = {} THEN <<>> ELSE TimeRangeAt(s, SetMin(hits))

\* faulty variant: overtime is not paid
parse_time_message_flat_pay(message, now) ==
    IF Contains(KwNormal, message) \/ Contains(KwStandard, message)
    THEN [type |-> "weekday", start_time |-> T0730, end_time |-> T1600,
          total_hours |-> 510, paid_hours |-> 450, overtime_hours |-> 0,
          total_pay |-> DAILY_RATE, date |-> now]
    ELSE IF \E day \in {KwSaturday, KwSunday, KwWeekend} : Contains(day, message)
    THEN [type |-> "weekend", start_time |-> T0800, end_time |-> T1300,
          total_hours |-> 300, paid_hours |-> 300, overtime_hours |-> 0,
          total_pay |-> DAILY_RATE, date |-> now]
    ELSE LET time_match == TimeRangeSearch(message)
         IN  IF time_match = <<>>
             THEN [error |-> "Could not parse time format"]
             ELSE LET start_time == time_match[1]
                      end_time == time_match[2]
                  IN  IF ~is_valid_24hour_time(start_time) \/ ~is_valid_24hour_time(end_time)
                      THEN [error |-> "Invalid time format"]
                      ELSE LET total_hours == calculate_hours_between(start_time, end_time)
                               paid_hours == IF total_hours > 6 * 60
                                             THEN total_hours - 60
                                             ELSE total_hours
                               e == SplitColon(end_time)
                               normal_end_minutes == 16 * 60
                               actual_end_minutes == ToInt(e[1]) * 60 + ToInt(e[2])
                               overtime_hours == IF actual_end_minutes > normal_end_minutes
                                                 THEN actual_end_minutes - normal_end_minutes
                                                 ELSE 0
                               total_pay == DAILY_RATE
                           IN  [type |-> "weekday", start_time |-> start_time,
                                end_time |-> end_time, total_hours |-> total_hours,
                                paid_hours |-> paid_hours,
                                overtime_hours |-> overtime_hours,
                                total_pay |-> total_pay, date |-> now]

\* faulty variant: a valid time range is honoured before the day tokens
parse_time_message_range_first(message, now) ==
    LET time_match == TimeRangeSearch(message)
        ranged == /\ time_match # <<>>
                  /\ is_valid_24hour_time(time_match[1])
                  /\ is_valid_24hour_time(time_match[2])
    IN  IF ranged
        THEN LET start_time == time_match[1]
                 end_time == time_match[2]
                 total_hours == calculate_hours_between(start_time, end_time)
                 paid_hours == IF total_hours > 6 * 60 THEN total_hours - 60
                               ELSE total_hours
                 e == SplitColon(end_time)
                 actual_end_minutes == ToInt(e[1]) * 60 + ToInt(e[2])
                 overtime_hours == IF actual_end_minutes > 16 * 60
                                   THEN actual_end_minutes - 16 * 60
                                   ELSE 0
                 total_pay == DAILY_RATE + (overtime_hours * OVERTIME_RATE) \div 60
             IN  [type |-> "weekday", start_time |-> start_time,
                  end_time |-> end_time, total_hours |-> total_hours,
                  paid_hours |-> paid_hours, overtime_hours |-> overtime_hours,
                  total_pay |-> total_pay, date |-> now]
        ELSE IF Contains(KwNormal, message) \/ Contains(KwStandard, message)
        THEN [type |-> "weekday", start_time |-> T0730, end_time |-> T1600,
              total_hours |-> 510, paid_hours |-> 450, overtime_hours |-> 0,
              total_pay |-> DAILY_RATE, date |-> now]
        ELSE IF \E day \in {KwSaturday, KwSunday, KwWeekend} : Contains(day, message)
        THEN [type |-> "weekend", start_time |-> T0800, end_time |-> T1300,
              total_hours |-> 300, paid_hours |-> 300, overtime_hours |-> 0,
              total_pay |-> DAILY_RATE, date |-> now]
        ELSE IF time_match = <<>>
        THEN [error |-> "Could not parse time format"]
        ELSE [error |-> "Invalid time format"]

\* faulty variant: overtime is what the shift lasts beyond 8.5 hours
parse_time_message_overtime_by_length(message, now) ==
    IF Contains(KwNormal, message) \/ Contains(KwStandard, message)
    THEN [type |-> "weekday", start_time |-> T0730, end_time |-> T1600,
          total_hours |-> 510, paid_hours |-> 450, overtime_hours |-> 0,
          total_pay |-> DAILY_RATE, date |-> now]
    ELSE IF \E day \in {KwSaturday, KwSunday, KwWeekend} : Contains(day, message)
    THEN [type |-> "weekend", start_time |-> T0800, end_time |-> T1300,
          total_hours |-> 300, paid_hours |-> 300, overtime_hours |-> 0,
          total_pay |-> DAILY_RATE, date |-> now]
    ELSE LET time_match == TimeRangeSearch(message)
         IN  IF time_match = <<>>
             THEN [error |-> "Could not parse time format"]
             ELSE LET start_time == time_match[1]
                      end_time == time_match[2]
                  IN  IF ~is_valid_24hour_time(start_time) \/ ~is_valid_24hour_time(end_time)
                      THEN [error |-> "Invalid time format"]
                      ELSE LET total_hours == calculate_hours_between(start_time, end_time)
                               paid_hours == IF total_hours > 6 * 60
                                             THEN total_hours - 60
                                             ELSE total_hours
                               e == SplitColon(end_time)
                               normal_end_minutes == 16 * 60
                               actual_end_minutes == ToInt(e[1]) * 60 + ToInt(e[2])
                               overtime_hours == IF total_hours > 510
                                                 THEN total_hours - 510
                                                 ELSE 0
                               total_pay == DAILY_RATE + (overtime_hours * OVERTIME_RATE) \div 60
                           IN  [type |-> "weekday", start_time |-> start_time,
                                end_time |-> end_time, total_hours |-> total_hours,
                                paid_hours |-> paid_hours,
                                overtime_hours |-> overtime_hours,
                                total_pay |-> total_pay, date |-> now]

\* parse_time_message(message) with datetime.now() read as `now`
parse_time_message(message, now) ==
    IF Contains(KwNormal, message) \/ Contains(KwStandard, message)
    THEN [type |-> "weekday", start_time |-> T0730, end_time |-> T1600,
          total_hours |-> 510, paid_hours |-> 450, overtime_hours |-> 0,
          total_pay |-> DAILY_RATE, date |-> now]
    ELSE IF \E day \in {KwSaturday, KwSunday, KwWeekend} : Contains(day, message)
    THEN [type |-> "weekend", start_time |-> T0800, end_time |-> T1300,
          total_hours |-> 300, paid_hours |-> 300, overtime_hours |-> 0,
          total_pay |-> DAILY_RATE, date |-> now]
    ELSE LET time_match == TimeRangeSearch(message)
         IN  IF time_match = <<>>
             THEN [error |-> "Could not parse time format"]
             ELSE LET start_time == time_match[1]
                      end_time == time_match[2]
                  IN  IF ~is_valid_24hour_time(start_time) \/ ~is_valid_24hour_time(end_time)
                      THEN [error |-> "Invalid time format"]
                      ELSE LET total_hours == calculate_hours_between(start_time, end_time)
                               paid_hours == IF total_hours > 6 * 60
                                             THEN total_hours - 60
                                             ELSE total_hours
                               e == SplitColon(end_time)
                               normal_end_minutes == 16 * 60
                               actual_end_minutes == ToInt(e[1]) * 60 + ToInt(e[2])
                               overtime_hours == IF actual_end_minutes > normal_end_minutes
                                                 THEN actual_end_minutes - normal_end_minutes
                                                 ELSE 0
                               total_pay == DAILY_RATE + (overtime_hours * OVERTIME_RATE) \div 60
                           IN  [type |-> "weekday", start_time |-> start_time,
                                end_time |-> end_time, total_hours |-> total_hours,
                                paid_hours |-> paid_hours,
                                overtime_hours |-> overtime_hours,
                                total_pay |-> total_pay, date |-> now]

IsError(time_data) ==
    "error" \in DOMAIN time_data

----------------------------------------------------------------------------
(* Bounds of the model *)

\* rows a behaviour may commit to the sheet
MaxWrites ==
    1

\* the dates datetime.now() may show while a message is handled
Dates ==
    {Day1, Day2}

----------------------------------------------------------------------------
(* Reply texts (pictographs and formatted figures left out) *)

DENIED ==
    "Sorry, this bot is only for authorized users."

USAGE_HINT ==
    "Send your hours: 'worked 7:30 till 17:00'"

FORMAT_HELP ==
    "Time format help"

CONFIRM_PROMPT ==
    "Please confirm ... Reply 'YES' to log this, or 'NO' to cancel"

NO_PENDING ==
    "No pending confirmation found. Send your work hours first!"

CANCELLED ==
    "Cancelled. Send your work hours again when ready."

LOGGED_OVERTIME ==
    "Logged! hour overtime today. Thanks Gary!"

LOGGED_WEEKEND ==
    "Weekend shift logged. Thanks Gary!"

LOGGED_NORMAL ==
    "Normal day logged. Thanks Gary!"

LOG_FAILED ==
    "Error logging entry. Please try again or contact Tim."

UNKNOWN_CONFIRMATION ==
    "Unknown confirmation type."

HELP_TEXT ==
    "Gary's Accounting Bot ... Commands"

HELP_TEXT_ADMIN ==
    "Gary's Accounting Bot ... Commands ... Type 'admin help' for admin commands"

ADMIN_HELP ==
    "Admin Commands"

ADMIN_STATUS ==
    "Bot Status"

ADMIN_STATS ==
    "Stats"

ADMIN_STATS_ERROR ==
    "Error fetching stats"

ADMIN_TEST_DONE ==
    "Connection test complete. Check logs for details."

ADMIN_CLEARED ==
    "Cleared all pending confirmations"

ADMIN_NO_ENTRIES ==
    "No entries found"

ADMIN_LAST ==
    "Last 5 entries"

ADMIN_LAST_ERROR ==
    "Error fetching entries"

ADMIN_UNKNOWN ==
    "Unknown admin command. Try 'admin help'"

WEBHOOK_ERROR ==
    "Sorry, there was an error processing your message. Please try again or contact Tim."

----------------------------------------------------------------------------
(* State *)

VARIABLES
    pending_confirmations,  \* GaryBot.pending_confirmations: phone -> pending action
    sheet,                  \* the rows of the 'PAYE Tracker' worksheet, columns A..D
    paye_sheet,             \* TRUE when the attribute self.paye_sheet is set
    log,                    \* history: every write the worksheet accepted, in order
    requests,               \* webhook requests in flight (threaded server)
    parser                  \* one call of the parser: its arguments and its return

vars ==
    <<pending_confirmations, sheet, paye_sheet, log, requests, parser>>

\* a worksheet laid out in advance: header, nine dated rows, then formula rows
HeaderRow ==
    <<HdrDate, HdrStart, HdrEnd, HdrHours>>

DatedRow ==
    <<Day0, T0730, T1600, Formula>>

TemplateSheet ==
    <<HeaderRow>> \o [i \in 1..9 |-> DatedRow]
        \o <<DatedRow, <<Placeholder, Blank, Blank, Formula>>, <<Blank, Blank, Blank, Formula>>>>

\* a worksheet holding only the header and two entries
ShortSheet ==
    <<HeaderRow, DatedRow, DatedRow>>

\* a worksheet with a row left empty among the first ten: header, one entry,
\* an empty row, eight entries down to row 11 and a placeholder row
GappedSheet ==
    <<HeaderRow, DatedRow, <<Blank, Blank, Blank, Formula>>>>
        \o [i \in 1..8 |-> DatedRow] \o <<<<Placeholder, Blank, Blank, Formula>>>>

InitialSheets ==
    {TemplateSheet, ShortSheet, GappedSheet}

\* no call of the parser is being followed
NoCall ==
    [op |-> "none", args |-> <<>>, times |-> <<>>, returned |-> FALSE,
     result |-> [skipped |-> TRUE]]

Init ==
    /\ pending_confirmations = <<>>
    /\ sheet \in InitialSheets
    /\ paye_sheet \in BOOLEAN
    /\ log = <<>>
    /\ requests = <<>>
    /\ parser = NoCall

----------------------------------------------------------------------------
(* Persistence gateway *)

\* one way the remote calls of a handler can go: which of them raise and
\* whether each setup_google_sheets() manages to reconnect
GatewayBehaviours ==
    [probe : BOOLEAN, scan : BOOLEAN, update : BOOLEAN, append : BOOLEAN,
     setup1 : BOOLEAN, setup2 : BOOLEAN]

Call(op, raised) ==
    [op |-> op, raised |-> raised]

\* faulty variant: the scan does not skip the first ten rows
FindNextRow_from_second_row(all_values) ==
    LET usable == {i \in 2..Len(all_values) :
                      \/ all_values[i][1] = Blank
                      \/ StartsWith(all_values[i][1], Placeholder)}
    IN  IF usable = {} THEN Len(all_values) + 1 ELSE SetMin(usable)

\* the row chosen by the scan of log_time_entry
FindNextRow(all_values) ==
    LET usable == {i \in 2..Len(all_values) :
                      /\ i > 10
                      /\ \/ all_values[i][1] = Blank
                         \/ StartsWith(all_values[i][1], Placeholder)}
    IN  IF usable = {} THEN Len(all_values) + 1 ELSE SetMin(usable)

\* worksheet.update('A{n}:C{n}', [row_data])
SheetUpdate(values, n, row_data) ==
    IF n <= Len(values)
    THEN [values EXCEPT ![n] = <<row_data[1], row_data[2], row_data[3], @[4]>>]
    ELSE Append(values, <<row_data[1], row_data[2], row_data[3], Blank>>)

\* worksheet.append_row(row_data)
SheetAppend(values, row_data) ==
    Append(values, <<row_data[1], row_data[2], row_data[3], Blank>>)

RowData(time_data) ==
    <<time_data.date, time_data.start_time, time_data.end_time>>

\* log_time_entry(time_data) on worksheet `values` with handle `handle`
log_time_entry(time_data, values, handle, gw) ==
    LET probeRaises == ~handle \/ gw.probe
        probeCalls == IF handle THEN <<Call("get_all_values", gw.probe)>> ELSE <<>>
        reconnect1 == IF probeRaises THEN <<Call("setup_google_sheets", FALSE)>> ELSE <<>>
        handle1 == IF probeRaises THEN (handle \/ gw.setup1) ELSE handle
        scanRaises == ~handle1 \/ gw.scan
        scanCalls == IF handle1 THEN <<Call("get_all_values", gw.scan)>> ELSE <<>>
        next_row == FindNextRow(values)
        row_data == RowData(time_data)
        updateRaises == ~scanRaises /\ gw.update
        updateCalls == IF scanRaises THEN <<>> ELSE <<Call("update", gw.update)>>
        before == probeCalls \o reconnect1 \o scanCalls \o updateCalls
    IN  IF ~scanRaises /\ ~updateRaises
        THEN [result |-> TRUE,
              values |-> SheetUpdate(values, next_row, row_data),
              handle |-> handle1,
              calls  |-> before,
              writes |-> <<[op |-> "update", row |-> next_row, data |-> row_data]>>]
        ELSE \* except Exception: one reconnection, then append_row(row_data);
             \* row_data is unbound when the scan raised before it was built
             LET handle2 == handle1 \/ gw.setup2
                 row_data_bound == ~scanRaises
                 appendCalled == handle2 /\ row_data_bound
                 appendRaises == ~appendCalled \/ gw.append
                 after == before \o <<Call("setup_google_sheets", FALSE)>>
                            \o (IF appendCalled THEN <<Call("append_row", gw.append)>> ELSE <<>>)
             IN  IF appendRaises
                 THEN [result |-> FALSE, values |-> values, handle |-> handle2,
                       calls |-> after, writes |-> <<>>]
                 ELSE [result |-> TRUE, values |-> SheetAppend(values, row_data),
                       handle |-> handle2, calls |-> after,
                       writes |-> <<[op |-> "append_row", row |-> Len(values) + 1,
                                     data |-> row_data]>>]

----------------------------------------------------------------------------
(* Confirmation store: a dict keyed by phone number *)

Put(d, k, v) ==
    [x \in (DOMAIN d) \cup {k} |-> IF x = k THEN v ELSE d[x]]

\* faulty variant: del removes every sender's entry
Del_everyone(d, k) ==
    <<>>

Del(d, k) ==
    [x \in (DOMAIN d) \ {k} |-> d[x]]

Cleared ==
    <<>>

----------------------------------------------------------------------------
(* Conversation controller *)

AFFIRMATIVE ==
    {TokYes, TokY, TokConfirm, TokOk}

NEGATIVE ==
    {TokNo, TokN, TokCancel}

\* what a handler hands back: the store, the worksheet and the handle as it
\* leaves them, its reply, whether the parser ran, the gateway calls it made
Outcome(pending, values, handle, reply, parsed, calls, writes) ==
    [pending |-> pending, values |-> values, handle |-> handle, reply |-> reply,
     parsed |-> parsed, calls |-> calls, writes |-> writes]

\* the reads of test_connections(): get('A1:C1'), then get_all_values()
test_connections(handle, gw) ==
    IF ~handle THEN <<>>
    ELSE IF gw.probe THEN <<Call("get", TRUE)>>
    ELSE <<Call("get", FALSE), Call("get_all_values", gw.scan)>>

\* faulty variant: 'clear' removes the admin's own pending action only
handle_admin_command_clear_own(parts, pending, values, handle, gw) ==
    LET Reply(p, text, calls) == Outcome(p, values, handle, text, FALSE, calls, <<>>)
        readRaises == ~handle \/ gw.probe
        readCalls == IF handle THEN <<Call("get_all_values", gw.probe)>> ELSE <<>>
    IN  IF Len(parts) = 1 \/ parts[2] = TokHelp THEN Reply(pending, ADMIN_HELP, <<>>)
        ELSE IF parts[2] = TokStatus THEN Reply(pending, ADMIN_STATUS, <<>>)
        ELSE IF parts[2] = TokStats
        THEN Reply(pending, IF readRaises THEN ADMIN_STATS_ERROR ELSE ADMIN_STATS, readCalls)
        ELSE IF parts[2] = TokTest
        THEN Reply(pending, ADMIN_TEST_DONE, test_connections(handle, gw))
        ELSE IF parts[2] = TokClear
        THEN Reply(Del(pending, ADMIN_PHONE), ADMIN_CLEARED, <<>>)
        ELSE IF parts[2] = TokLast
        THEN Reply(pending,
                   IF readRaises THEN ADMIN_LAST_ERROR
                   ELSE IF Len(values) <= 1 THEN ADMIN_NO_ENTRIES
                   ELSE ADMIN_LAST,
                   readCalls)
        ELSE Reply(pending, ADMIN_UNKNOWN, <<>>)

handle_admin_command(parts, pending, values, handle, gw) ==
    LET Reply(p, text, calls) == Outcome(p, values, handle, text, FALSE, calls, <<>>)
        readRaises == ~handle \/ gw.probe
        readCalls == IF handle THEN <<Call("get_all_values", gw.probe)>> ELSE <<>>
    IN  IF Len(parts) = 1 \/ parts[2] = TokHelp THEN Reply(pending, ADMIN_HELP, <<>>)
        ELSE IF parts[2] = TokStatus THEN Reply(pending, ADMIN_STATUS, <<>>)
        ELSE IF parts[2] = TokStats
        THEN Reply(pending, IF readRaises THEN ADMIN_STATS_ERROR ELSE ADMIN_STATS, readCalls)
        ELSE IF parts[2] = TokTest
        THEN Reply(pending, ADMIN_TEST_DONE, test_connections(handle, gw))
        ELSE IF parts[2] = TokClear THEN Reply(Cleared, ADMIN_CLEARED, <<>>)
        ELSE IF parts[2] = TokLast
        THEN Reply(pending,
                   IF readRaises THEN ADMIN_LAST_ERROR
                   ELSE IF Len(values) <= 1 THEN ADMIN_NO_ENTRIES
                   ELSE ADMIN_LAST,
                   readCalls)
        ELSE Reply(pending, ADMIN_UNKNOWN, <<>>)

PendingAction(time_data, message) ==
    [type |-> "time_entry", data |-> time_data, original_message |-> message]

\* faulty variant: what the parser returned is stored, an error too
handle_time_request_stores_errors(message, from_number, time_data, pending, values, handle) ==
    Outcome(Put(pending, from_number, PendingAction(time_data, message)),
            values, handle, IF IsError(time_data) THEN FORMAT_HELP ELSE CONFIRM_PROMPT,
            TRUE, <<>>, <<>>)

\* faulty variant: the entry is logged as soon as it parses
handle_time_request_logs_at_once(message, from_number, time_data, pending, values, handle) ==
    IF IsError(time_data)
    THEN Outcome(pending, values, handle, FORMAT_HELP, TRUE, <<>>, <<>>)
    ELSE Outcome(Put(pending, from_number, PendingAction(time_data, message)),
                 SheetAppend(values, RowData(time_data)), handle, CONFIRM_PROMPT, TRUE,
                 <<Call("append_row", FALSE)>>,
                 <<[op |-> "append_row", row |-> Len(values) + 1,
                    data |-> RowData(time_data)]>>)

\* faulty variant: a request does not replace the action already pending
handle_time_request_keeps_first(message, from_number, time_data, pending, values, handle) ==
    IF IsError(time_data)
    THEN Outcome(pending, values, handle, FORMAT_HELP, TRUE, <<>>, <<>>)
    ELSE Outcome(IF from_number \in DOMAIN pending THEN pending
                 ELSE Put(pending, from_number, PendingAction(time_data, message)),
                 values, handle, CONFIRM_PROMPT, TRUE, <<>>, <<>>)

\* time_data is parse_time_message(message), see Classify
handle_time_request(message, from_number, time_data, pending, values, handle) ==
    IF IsError(time_data)
    THEN Outcome(pending, values, handle, FORMAT_HELP, TRUE, <<>>, <<>>)
    ELSE Outcome(Put(pending, from_number, PendingAction(time_data, message)),
                 values, handle, CONFIRM_PROMPT, TRUE, <<>>, <<>>)

SuccessSummary(time_data) ==
    IF time_data.overtime_hours > 0 THEN LOGGED_OVERTIME
    ELSE IF time_data.type = "weekend" THEN LOGGED_WEEKEND
    ELSE LOGGED_NORMAL

\* faulty variant: the pending action is deleted only after a successful write
handle_confirmation_keeps_failed(from_number, confirmed, pending, values, handle, gw) ==
    IF from_number \notin DOMAIN pending
    THEN Outcome(pending, values, handle, NO_PENDING, FALSE, <<>>, <<>>)
    ELSE LET p == pending[from_number]
         IN  IF ~confirmed
             THEN Outcome(Del(pending, from_number), values, handle, CANCELLED,
                          FALSE, <<>>, <<>>)
             ELSE IF p.type = "time_entry"
             THEN LET r == log_time_entry(p.data, values, handle, gw)
                  IN  Outcome(IF r.result THEN Del(pending, from_number) ELSE pending,
                              r.values, r.handle,
                              IF r.result THEN SuccessSummary(p.data) ELSE LOG_FAILED,
                              FALSE, r.calls, r.writes)
             ELSE Outcome(pending, values, handle, UNKNOWN_CONFIRMATION,
                          FALSE, <<>>, <<>>)

\* faulty variant: the success summary is sent whatever log_time_entry returned
handle_confirmation_always_logged(from_number, confirmed, pending, values, handle, gw) ==
    IF from_number \notin DOMAIN pending
    THEN Outcome(pending, values, handle, NO_PENDING, FALSE, <<>>, <<>>)
    ELSE LET p == pending[from_number]
         IN  IF ~confirmed
             THEN Outcome(Del(pending, from_number), values, handle, CANCELLED,
                          FALSE, <<>>, <<>>)
             ELSE LET r == log_time_entry(p.data, values, handle, gw)
                  IN  Outcome(Del(pending, from_number), r.values, r.handle,
                              SuccessSummary(p.data), FALSE, r.calls, r.writes)

\* faulty variant: a cancel is acknowledged whether or not anything is pending
handle_confirmation_cancels_nothing(from_number, confirmed, pending, values, handle, gw) ==
    IF ~confirmed
    THEN Outcome(Del(pending, from_number), values, handle, CANCELLED, FALSE, <<>>, <<>>)
    ELSE IF from_number \notin DOMAIN pending
    THEN Outcome(pending, values, handle, NO_PENDING, FALSE, <<>>, <<>>)
    ELSE LET p == pending[from_number]
         IN  IF p.type = "time_entry"
             THEN LET r == log_time_entry(p.data, values, handle, gw)
                  IN  Outcome(Del(pending, from_number), r.values, r.handle,
                              IF r.result THEN SuccessSummary(p.data) ELSE LOG_FAILED,
                              FALSE, r.calls, r.writes)
             ELSE Outcome(pending, values, handle, UNKNOWN_CONFIRMATION,
                          FALSE, <<>>, <<>>)

handle_confirmation(from_number, confirmed, pending, values, handle, gw) ==
    IF from_number \notin DOMAIN pending
    THEN Outcome(pending, values, handle, NO_PENDING, FALSE, <<>>, <<>>)
    ELSE LET p == pending[from_number]
         IN  IF ~confirmed
             THEN Outcome(Del(pending, from_number), values, handle, CANCELLED,
                          FALSE, <<>>, <<>>)
             ELSE IF p.type = "time_entry"
             THEN LET r == log_time_entry(p.data, values, handle, gw)
                  IN  Outcome(Del(pending, from_number), r.values, r.handle,
                              IF r.result THEN SuccessSummary(p.data) ELSE LOG_FAILED,
                              FALSE, r.calls, r.writes)
             ELSE Outcome(pending, values, handle, UNKNOWN_CONFIRMATION,
                          FALSE, <<>>, <<>>)

help_message(from_number) ==
    IF is_admin(from_number) THEN HELP_TEXT_ADMIN ELSE HELP_TEXT

\* the branch process_message takes
Route(raw, from_number) ==
    IF ~is_authorized(from_number) THEN "denied"
    ELSE LET message == Strip(Lower(raw))
         IN  IF is_admin(from_number) /\ StartsWith(message, TokAdmin) THEN "admin"
             ELSE IF message \in AFFIRMATIVE THEN "confirm"
             ELSE IF message \in NEGATIVE THEN "cancel"
             ELSE IF is_time_message(message) THEN "time"
             ELSE IF message \in {TokHelp, TokStatus} THEN "help"
             ELSE "hint"

\* The part of process_message that depends on the message alone: the
\* normalised text, the branch taken and, on the branches that compute them,
\* the words of the admin command and the result of the parser.
NotParsed ==
    [skipped |-> TRUE]

Classify(raw, from_number, now) ==
    LET message == Strip(Lower(raw))
        route == Route(raw, from_number)
    IN  [from |-> from_number, raw |-> raw, message |-> message, route |-> route,
         parts |-> IF route = "admin" THEN Split(message) ELSE <<>>,
         time_data |-> IF route = "time" THEN parse_time_message(message, now)
                       ELSE NotParsed]

process_message(c, pending, values, handle, gw) ==
    LET Say(text) == Outcome(pending, values, handle, text, FALSE, <<>>, <<>>)
    IN  CASE c.route = "denied"  -> Say(DENIED)
          [] c.route = "admin"   -> handle_admin_command(c.parts, pending, values, handle, gw)
          [] c.route = "confirm" -> handle_confirmation(c.from, TRUE, pending, values, handle, gw)
          [] c.route = "cancel"  -> handle_confirmation(c.from, FALSE, pending, values, handle, gw)
          [] c.route = "time"    -> handle_time_request(c.message, c.from, c.time_data,
                                                        pending, values, handle)
          [] c.route = "help"    -> Say(help_message(c.from))
          [] c.route = "hint"    -> Say(USAGE_HINT)

----------------------------------------------------------------------------
(* Inputs of the model *)

Senders ==
    Phones

\* every message of the model from every sender, on every date
Inbound ==
    {Classify(raw, from_number, now) :
        raw \in Messages, from_number \in Senders, now \in Dates}

\* gateway behaviours that differ in a call log_time_entry reaches
Reached(g, handle) ==
    LET handle1 == handle \/ g.setup1
        scanRaises == ~handle1 \/ g.scan
    IN  /\ ~handle => ~g.probe
        /\ handle => g.setup1 /\ g.setup2
        /\ handle1 => g.setup2
        /\ ~handle1 => ~g.scan
        /\ scanRaises => ~g.update /\ ~g.append
        /\ ~g.update => ~g.append

WriteBehaviours ==
    [h \in BOOLEAN |-> {g \in GatewayBehaviours : Reached(g, h)}]

\* the two reads of an admin command
ReadBehaviours ==
    {g \in GatewayBehaviours : ~g.update /\ ~g.append /\ g.setup1 /\ g.setup2}

\* no gateway call raises
Quiet ==
    [probe |-> FALSE, scan |-> FALSE, update |-> FALSE, append |-> FALSE,
     setup1 |-> TRUE, setup2 |-> TRUE]

----------------------------------------------------------------------------
(* One message at a time: the webhook handles a message from receipt to reply *)

\* webhook(): process_message ran to its return, the reply is sent
Handle(c, gw) ==
    LET o == process_message(c, pending_confirmations, sheet, paye_sheet, gw)
    IN  /\ pending_confirmations' = o.pending
        /\ sheet' = o.values
        /\ paye_sheet' = o.handle
        /\ log' = log \o o.writes
        /\ UNCHANGED <<requests, parser>>

Unauthorized ==
    \E c \in Inbound :
        /\ c.route = "denied"
        /\ Handle(c, Quiet)

AdminCommand ==
    \E c \in Inbound :
        /\ c.route = "admin"
        /\ \E gw \in ReadBehaviours : Handle(c, gw)

Confirm ==
    \E c \in Inbound :
        /\ c.route = "confirm"
        /\ c.from \in DOMAIN pending_confirmations => Len(log) < MaxWrites
        /\ \E gw \in WriteBehaviours[paye_sheet] : Handle(c, gw)

Cancel ==
    \E c \in Inbound :
        /\ c.route = "cancel"
        /\ Handle(c, Quiet)

TimeRequest ==
    \E c \in Inbound :
        /\ c.route = "time"
        /\ Handle(c, Quiet)

Help ==
    \E c \in Inbound :
        /\ c.route = "help"
        /\ Handle(c, Quiet)

UsageHint ==
    \E c \in Inbound :
        /\ c.route = "hint"
        /\ Handle(c, Quiet)

Next ==
    \/ Unauthorized
    \/ AdminCommand
    \/ Confirm
    \/ Cancel
    \/ TimeRequest
    \/ Help
    \/ UsageHint

Spec ==
    Init /\ [][Next]_vars

----------------------------------------------------------------------------
(* Threaded server: app.run() serves every webhook request on a thread of  *)
(* its own, all of them sharing gary_bot.  A request is a record of        *)
(* `requests`; it stays there once it is done, as the journal of the run.  *)
(* A handler that touches the shared state once is one step.               *)
(* handle_confirmation is four steps: the membership test, the read, the   *)
(* write through the gateway and the del.  The gateway calls of one        *)
(* log_time_entry are taken as one step.                                   *)

\* requests a behaviour receives in all
MaxRequests ==
    3

\* requests being served at the same time
MaxInFlight ==
    2

ConcurrentMessages ==
    {MsgYES, MsgNo, MsgOvertime, MsgNormal, MsgAdminClear}

ConcurrentInbound ==
    {c \in Inbound :
        /\ c.raw \in ConcurrentMessages
        /\ c.from \in {GARY_PHONE, ADMIN_PHONE}
        /\ c.route = "time" => c.time_data.date = Day1}

NoAction ==
    [type |-> "none"]

\* a request as the webhook receives it; gen, stored, wrote and deleted_newer
\* are history: gen numbers the pending action the handler read
Request(c) ==
    [c |-> c, pc |-> "start", p |-> NoAction, gen |-> 0, result |-> FALSE,
     stored |-> FALSE, wrote |-> <<>>, deleted_newer |-> FALSE,
     reply |-> "", raised |-> FALSE]

InFlight ==
    {i \in 1..Len(requests) : requests[i].pc # "done"}

\* the number of pending actions stored for a sender so far
Generation(from_number) ==
    Cardinality({i \in 1..Len(requests) :
                    requests[i].stored /\ requests[i].c.from = from_number})

\* webhook(): the reply is sent; an exception that left process_message is
\* caught here and answered with the generic error text
Done(req, reply) ==
    [req EXCEPT !.pc = "done", !.reply = reply]

Raise(req) ==
    [req EXCEPT !.pc = "done", !.raised = TRUE, !.reply = WEBHOOK_ERROR]

Receive ==
    \E c \in ConcurrentInbound :
        /\ Len(requests) < MaxRequests
        /\ Cardinality(InFlight) < MaxInFlight
        /\ requests' = Append(requests, Request(c))
        /\ UNCHANGED <<pending_confirmations, sheet, paye_sheet, log, parser>>

\* every branch of process_message but the two confirmation branches
Serve ==
    \E i \in InFlight : \E gw \in ReadBehaviours :
        LET req == requests[i]
            o == process_message(req.c, pending_confirmations, sheet, paye_sheet, gw)
        IN  /\ req.pc = "start"
            /\ req.c.route \notin {"confirm", "cancel"}
            /\ pending_confirmations' = o.pending
            /\ requests' = [requests EXCEPT
                   ![i] = [Done(req, o.reply) EXCEPT
                              !.stored = (req.c.route = "time" /\ ~IsError(req.c.time_data))]]
            /\ UNCHANGED <<sheet, paye_sheet, log, parser>>

\* handle_confirmation: if from_number not in self.pending_confirmations
Check ==
    \E i \in InFlight :
        LET req == requests[i]
        IN  /\ req.pc = "start"
            /\ req.c.route \in {"confirm", "cancel"}
            /\ requests' = [requests EXCEPT
                   ![i] = IF req.c.from \notin DOMAIN pending_confirmations
                          THEN Done(req, NO_PENDING)
                          ELSE [req EXCEPT !.pc = "read"]]
            /\ UNCHANGED <<pending_confirmations, sheet, paye_sheet, log, parser>>

\* handle_confirmation: pending = self.pending_confirmations[from_number]
Read ==
    \E i \in InFlight :
        LET req == requests[i]
        IN  /\ req.pc = "read"
            /\ requests' = [requests EXCEPT
                   ![i] = IF req.c.from \notin DOMAIN pending_confirmations
                          THEN Raise(req)
                          ELSE [req EXCEPT
                                   !.p = pending_confirmations[req.c.from],
                                   !.gen = Generation(req.c.from),
                                   !.pc = IF req.c.route = "confirm" THEN "log" ELSE "del"]]
            /\ UNCHANGED <<pending_confirmations, sheet, paye_sheet, log, parser>>

\* handle_confirmation: result = self.log_time_entry(pending['data'])
Log ==
    \E i \in InFlight : \E gw \in WriteBehaviours[paye_sheet] :
        LET req == requests[i]
            r == log_time_entry(req.p.data, sheet, paye_sheet, gw)
        IN  /\ req.pc = "log"
            /\ sheet' = r.values
            /\ paye_sheet' = r.handle
            /\ log' = log \o r.writes
            /\ requests' = [requests EXCEPT
                   ![i] = [req EXCEPT !.pc = "del", !.result = r.result,
                                      !.wrote = r.writes]]
            /\ UNCHANGED <<pending_confirmations, parser>>

\* handle_confirmation: del self.pending_confirmations[from_number], then
\* the reply; del raises KeyError when the entry is gone
Delete ==
    \E i \in InFlight :
        LET req == requests[i]
            from_number == req.c.from
        IN  /\ req.pc = "del"
            /\ IF from_number \notin DOMAIN pending_confirmations
               THEN /\ requests' = [requests EXCEPT ![i] = Raise(req)]
                    /\ UNCHANGED pending_confirmations
               ELSE /\ pending_confirmations' = Del(pending_confirmations, from_number)
                    /\ requests' = [requests EXCEPT
                           ![i] = [Done(req,
                                        IF req.c.route = "cancel" THEN CANCELLED
                                        ELSE IF req.result THEN SuccessSummary(req.p.data)
                                        ELSE LOG_FAILED)
                                   EXCEPT !.deleted_newer =
                                              (Generation(from_number) # req.gen)]]
            /\ UNCHANGED <<sheet, paye_sheet, log, parser>>

NextThreaded ==
    \/ Receive
    \/ Serve
    \/ Check
    \/ Read
    \/ Log
    \/ Delete

SpecThreaded ==
    Init /\ [][NextThreaded]_vars

----------------------------------------------------------------------------
(* The parser on its own: parse_time_message and calculate_hours_between   *)
(* are pure.  A behaviour of SpecParser is one call followed from its      *)
(* arguments to its return; `times` records the start and end the caller   *)
(* meant, in minutes since midnight, when the utterance carries a valid    *)
(* range.                                                                  *)

\* the times of day of the model, in minutes since midnight
ClockHours ==
    0..23

ClockMinutes ==
    {0, 30, 59}

ClockTimes ==
    {h * 60 + m : h \in ClockHours, m \in ClockMinutes}

\* 7:30, 16:00, 17:00, 10:00, 22:00, 6:00 and 0:00
SampleTimes ==
    {450, 960, 1020, 600, 1320, 360, 0}

TwoDigits(n) ==
    <<Digits[(n \div 10) + 1], Digits[(n % 10) + 1]>>

\* a time of day as it is typed: '7:30', '16:00'
FormatTime(t) ==
    (IF t \div 60 < 10 THEN <<Digits[(t \div 60) + 1]>> ELSE TwoDigits(t \div 60))
        \o KwColon \o TwoDigits(t % 60)

\* the same with a leading zero: '07:30'
FormatTimePadded(t) ==
    TwoDigits(t \div 60) \o KwColon \o TwoDigits(t % 60)

\* what may stand between the two times of a range
SepTill ==
    <<" ", "t", "i", "l", "l", " ">>
Connectors ==
    {SepTill, <<" ", "t", "i", "l", " ">>, <<" ", "t", "o", " ">>, <<"u", "n", "t", "i", "l">>, <<"-">>, <<" ", "-", " ">>}

\* times the validation rejects: '25:00', '16:75', '24:00'
InvalidTimes ==
    {<<"2", "5", ":", "0", "0">>, <<"1", "6", ":", "7", "5">>, <<"2", "4", ":", "0", "0">>}

\* what may follow the range in an utterance
NoTail ==
    <<>>
Tails ==
    {NoTail, <<" ", "n", "o", "r", "m", "a", "l">>, <<" ", "s", "t", "a", "n", "d", "a", "r", "d", " ", "s", "h", "i", "f", "t">>, <<" ", "s", "a", "t", "u", "r", "d", "a", "y">>, <<" ", "o", "n", " ", "s", "u", "n", "d", "a", "y">>, <<" ", "w", "e", "e", "k", "e", "n", "d">>, <<" ", "n", "o", "r", "m", "a", "l", " ", "s", "a", "t", "u", "r", "d", "a", "y">>, <<" ", "t", "o", "d", "a", "y">>}

Utterance(start_text, connector, end_text, tail) ==
    KwWorked \o <<" ">> \o start_text \o connector \o end_text \o tail

ParseCall(message, now, times) ==
    [op |-> "parse_time_message", args |-> <<message, now>>, times |-> times,
     returned |-> FALSE, result |-> [skipped |-> TRUE]]

CalculateCall(start_time, end_time, times) ==
    [op |-> "calculate_hours_between", args |-> <<start_time, end_time>>,
     times |-> times, returned |-> FALSE, result |-> [skipped |-> TRUE]]

\* every pair of times in the plain form 'worked 7:30 till 17:00'
PlainCalls ==
    {ParseCall(Utterance(FormatTime(s), SepTill, FormatTime(e), NoTail), Day1, <<s, e>>) :
        s \in ClockTimes, e \in ClockTimes}

\* the sample times with every connector, tail and date, typed either way
VariedCalls ==
    {ParseCall(Utterance(FormatTime(s), c, FormatTime(e), t), now, <<s, e>>) :
        s \in SampleTimes, e \in SampleTimes, c \in Connectors, t \in Tails, now \in Dates}
    \cup
    {ParseCall(Utterance(FormatTimePadded(s), SepTill, FormatTimePadded(e), t), now, <<s, e>>) :
        s \in SampleTimes, e \in SampleTimes, t \in Tails, now \in Dates}

\* utterances whose range is invalid or missing
MalformedCalls ==
    {ParseCall(Utterance(b, SepTill, FormatTime(e), t), now, <<>>) :
        b \in InvalidTimes, e \in SampleTimes, t \in Tails, now \in Dates}
    \cup
    {ParseCall(Utterance(FormatTime(s), SepTill, b, t), now, <<>>) :
        s \in SampleTimes, b \in InvalidTimes, t \in Tails, now \in Dates}
    \cup
    {ParseCall(KwWorked \o t, now, <<>>) : t \in Tails, now \in Dates}

CalculateCalls ==
    {CalculateCall(FormatTime(s), FormatTime(e), <<s, e>>) :
        s \in ClockTimes, e \in ClockTimes}
    \cup
    {CalculateCall(FormatTimePadded(s), FormatTimePadded(e), <<s, e>>) :
        s \in SampleTimes, e \in SampleTimes}

ParserCalls ==
    PlainCalls \cup VariedCalls \cup MalformedCalls \cup CalculateCalls

InitParser ==
    /\ pending_confirmations = <<>>
    /\ sheet = ShortSheet
    /\ paye_sheet = TRUE
    /\ log = <<>>
    /\ requests = <<>>
    /\ parser \in ParserCalls

\* parse_time_message(message) returns
Parse ==
    /\ parser.op = "parse_time_message"
    /\ ~parser.returned
    /\ parser' = [parser EXCEPT
           !.returned = TRUE,
           !.result = parse_time_message(parser.args[1], parser.args[2])]
    /\ UNCHANGED <<pending_confirmations, sheet, paye_sheet, log, requests>>

\* calculate_hours_between(start_time, end_time) returns
Calculate ==
    /\ parser.op = "calculate_hours_between"
    /\ ~parser.returned
    /\ parser' = [parser EXCEPT
           !.returned = TRUE,
           !.result = [hours |-> calculate_hours_between(parser.args[1], parser.args[2])]]
    /\ UNCHANGED <<pending_confirmations, sheet, paye_sheet, log, requests>>

NextParser ==
    \/ Parse
    \/ Calculate

SpecParser ==
    InitParser /\ [][NextParser]_vars

----------------------------------------------------------------------------
(* Properties.  A property of a handler is stated over every reachable     *)
(* state and every input of the model: After(c, gw) is what the handler    *)
(* does to the current state on input c under gateway behaviour gw.  The   *)
(* state a handler leaves is itself reachable, so what holds of every      *)
(* reachable state holds of every later message as well.                   *)

After(c, gw) ==
    process_message(c, pending_confirmations, sheet, paye_sheet, gw)

\* the gateway behaviours a branch can meet
GatewayFor(c) ==
    IF c.route \in {"admin", "confirm", "cancel"} THEN GatewayBehaviours ELSE {Quiet}

Authorized ==
    {GARY_PHONE, ADMIN_PHONE}

YesTokens ==
    {TokYes, TokY, TokConfirm, TokOk}

NoTokens ==
    {TokNo, TokN, TokCancel}

\* the inputs of the model by what the sender sent, read off the raw text
YesInputs ==
    {c \in Inbound : c.from \in Authorized /\ Strip(Lower(c.raw)) \in YesTokens}

NoInputs ==
    {c \in Inbound : c.from \in Authorized /\ Strip(Lower(c.raw)) \in NoTokens}

OutsiderInputs ==
    {c \in Inbound : c.from \notin Authorized}

AdminInputs ==
    {c \in Inbound : c.from = ADMIN_PHONE /\ StartsWith(Strip(Lower(c.raw)), TokAdmin)}

\* the time utterances: the parser's result is an error or a shift record
ErrorInputs ==
    {c \in Inbound : c.from \in Authorized /\ c.route = "time" /\ IsError(c.time_data)}

ShiftInputs ==
    {c \in Inbound : c.from \in Authorized /\ c.route = "time" /\ ~IsError(c.time_data)}

\* the handler left the worksheet alone: no cell changed, no write was made
\* or attempted
NoStoreWrite(o) ==
    /\ o.values = sheet
    /\ o.writes = <<>>
    /\ \A i \in 1..Len(o.calls) : o.calls[i].op \notin {"update", "append_row"}

\* C1: the worksheet is written (update or append_row) only while an
\* affirmative token (yes/y/confirm/ok) from an authorized sender who has a
\* pending action is handled; no other message writes or tries to write.
C1_ConfirmBeforeCommit ==
    /\ \A c \in Inbound \ YesInputs : \A gw \in GatewayFor(c) :
           NoStoreWrite(After(c, gw))
    /\ \A c \in YesInputs :
           c.from \notin DOMAIN pending_confirmations =>
               \A gw \in GatewayBehaviours : NoStoreWrite(After(c, gw))

\* a confirmed entry has reached the worksheet
C1_Witness ==
    /\ Len(log) >= 1
    /\ SubSeq(sheet[log[1].row], 1, 3) = log[1].data

\* C2: a parseable time request replaces the sender's pending action whole
\* (and nobody else's) and writes nothing; YES then commits the (date, start,
\* end) of the action pending at that moment, at most once, and leaves the
\* sender with nothing pending; a YES from a sender with nothing pending
\* replies 'no pending' and writes nothing.
C2_LatestWins ==
    /\ \A c \in ShiftInputs :
           LET o == After(c, Quiet)
           IN  /\ o.pending = Put(pending_confirmations, c.from,
                                  PendingAction(c.time_data, c.message))
               /\ RowData(o.pending[c.from].data)
                    = <<c.time_data.date, c.time_data.start_time, c.time_data.end_time>>
               /\ NoStoreWrite(o)
    /\ \A c \in YesInputs : \A gw \in GatewayBehaviours :
           LET o == After(c, gw)
           IN  IF c.from \in DOMAIN pending_confirmations
               THEN /\ Len(o.writes) <= 1
                    /\ \A i \in 1..Len(o.writes) :
                           o.writes[i].data = RowData(pending_confirmations[c.from].data)
                    /\ c.from \notin DOMAIN o.pending
               ELSE /\ o.reply = NO_PENDING
                    /\ NoStoreWrite(o)

\* a sender with a pending action sends a different parseable request: the
\* YES that follows writes the row of the new request, not of the old one,
\* and a second YES finds nothing pending
C2_Witness ==
    \E c \in ShiftInputs : \E y \in YesInputs :
        /\ y.from = c.from
        /\ c.from \in DOMAIN pending_confirmations
        /\ RowData(pending_confirmations[c.from].data) # RowData(c.time_data)
        /\ LET o == After(c, Quiet)
               o2 == process_message(y, o.pending, o.values, o.handle, Quiet)
               o3 == process_message(y, o2.pending, o2.values, o2.handle, Quiet)
           IN  /\ Len(o2.writes) = 1
               /\ o2.writes[1].data = RowData(c.time_data)
               /\ o2.writes[1].data # RowData(pending_confirmations[c.from].data)
               /\ o3.reply = NO_PENDING
               /\ o3.values = o2.values

\* C3: after an affirmative or negative token from an authorized sender with
\* a pending action, that sender has nothing pending, whether the write
\* succeeded or failed; a failed write gives the failure text and leaves the
\* worksheet as it was.  A sender with nothing pending gets nothing written
\* by any message, and gets a pending action only by a parseable time
\* request: a failed entry is not retried unless the hours are sent again.
C3_PendingCleared ==
    /\ \A c \in YesInputs \cup NoInputs : \A gw \in GatewayBehaviours :
           c.from \in DOMAIN pending_confirmations =>
               LET o == After(c, gw)
               IN  /\ c.from \notin DOMAIN o.pending
                   /\ c \in NoInputs => o.reply = CANCELLED /\ NoStoreWrite(o)
                   /\ (c \in YesInputs /\ o.writes = <<>>) =>
                          o.reply = LOG_FAILED /\ o.values = sheet
                   /\ (c \in YesInputs /\ o.writes # <<>>) =>
                          o.reply \in {LOGGED_OVERTIME, LOGGED_WEEKEND, LOGGED_NORMAL}
    /\ \A c \in Inbound : \A gw \in GatewayFor(c) :
           (c.from \in Authorized /\ c.from \notin DOMAIN pending_confirmations) =>
               /\ NoStoreWrite(After(c, gw))
               /\ c.from \in DOMAIN After(c, gw).pending => c \in ShiftInputs

\* a sender has a pending action whose confirmation fails at the gateway:
\* the reply is the failure text and the action is gone
C3_Witness ==
    \E c \in YesInputs : \E gw \in GatewayBehaviours :
        /\ c.from \in DOMAIN pending_confirmations
        /\ After(c, gw).reply = LOG_FAILED
        /\ c.from \notin DOMAIN After(c, gw).pending
        /\ After(c, gw).values = sheet

\* C4: an affirmative or negative token from an authorized sender with
\* nothing pending gets the 'no pending confirmation' reply and changes
\* neither the confirmation store (other senders' pending actions stay) nor
\* the worksheet.
C4_NothingPending ==
    \A c \in YesInputs \cup NoInputs : \A gw \in GatewayBehaviours :
        c.from \notin DOMAIN pending_confirmations =>
            LET o == After(c, gw)
            IN  /\ o.reply = NO_PENDING
                /\ o.pending = pending_confirmations
                /\ o.handle = paye_sheet
                /\ o.calls = <<>>
                /\ NoStoreWrite(o)

\* one authorized sender has nothing pending while the other has, and sends
\* YES and NO
C4_Witness ==
    \E s \in Authorized : \E t \in Authorized :
        /\ s \notin DOMAIN pending_confirmations
        /\ t \in DOMAIN pending_confirmations
        /\ \E c \in YesInputs : c.from = s /\ After(c, Quiet).reply = NO_PENDING
        /\ \E c \in NoInputs : c.from = s /\ After(c, Quiet).reply = NO_PENDING

\* C5: every message from a sender outside the allow-list gets the fixed
\* denial, the parser is not run, and the confirmation store, the worksheet
\* and the sheet handle stay as they were.
C5_Unauthorized ==
    \A c \in OutsiderInputs : \A gw \in GatewayBehaviours :
        LET o == After(c, gw)
        IN  /\ o.reply = DENIED
            /\ ~o.parsed
            /\ c.time_data = NotParsed
            /\ o.pending = pending_confirmations
            /\ o.handle = paye_sheet
            /\ o.calls = <<>>
            /\ NoStoreWrite(o)

\* pending actions exist when the outsider sends YES, a time utterance and
\* 'admin clear'
C5_Witness ==
    /\ pending_confirmations # <<>>
    /\ \A raw \in {MsgYES, MsgOvertime, MsgAdminClear} :
           \E c \in OutsiderInputs : c.raw = raw /\ After(c, Quiet).reply = DENIED

Unparseable ==
    {MsgBadHour, MsgBadMinute, MsgNoRange}

\* C6: a time utterance that does not parse (no time range, hour outside
\* 0..23, minute outside 0..59) gets the format help and changes nothing: no
\* pending action is created, and the one the sender had stays and is what a
\* later YES commits.
C6_ParseErrorNoChange ==
    /\ \A c \in Inbound :
           (c.from \in Authorized /\ c.raw \in Unparseable) => c \in ErrorInputs
    /\ \A c \in ErrorInputs :
           LET o == After(c, Quiet)
           IN  /\ o.reply = FORMAT_HELP
               /\ o.pending = pending_confirmations
               /\ o.handle = paye_sheet
               /\ NoStoreWrite(o)
               /\ c.from \in DOMAIN pending_confirmations =>
                      \A y \in YesInputs : \A gw \in GatewayBehaviours :
                          y.from = c.from =>
                              LET o2 == process_message(y, o.pending, o.values, o.handle, gw)
                              IN  \A i \in 1..Len(o2.writes) :
                                      o2.writes[i].data
                                        = RowData(pending_confirmations[c.from].data)

\* a sender with a pending action sends each of the unparseable utterances
C6_Witness ==
    \E s \in DOMAIN pending_confirmations :
        \A raw \in Unparseable :
            \E c \in ErrorInputs :
                /\ c.from = s /\ c.raw = raw
                /\ After(c, Quiet).reply = FORMAT_HELP
                /\ After(c, Quiet).pending[s] = pending_confirmations[s]

CountCalls(calls, op) ==
    Cardinality({i \in 1..Len(calls) : calls[i].op = op})

\* C7: whichever gateway call of a confirmed write raises (the probe read,
\* the row-scan read or the update), the gateway reconnects exactly once and
\* retries exactly once by appending the same (date, start, end) row, and
\* only then reports failure.
C7_RetryContract ==
    \A s \in DOMAIN pending_confirmations : \A gw \in GatewayBehaviours :
        LET time_data == pending_confirmations[s].data
            r == log_time_entry(time_data, sheet, paye_sheet, gw)
            raised == \E i \in 1..Len(r.calls) : r.calls[i].raised
        IN  raised =>
                /\ CountCalls(r.calls, "setup_google_sheets") = 1
                /\ CountCalls(r.calls, "append_row") = 1
                /\ r.result => r.writes = <<[op |-> "append_row", row |-> Len(sheet) + 1,
                                             data |-> RowData(time_data)]>>

\* C9: 'admin clear' from the admin empties the whole confirmation store and
\* writes nothing; every other admin sub-command leaves the store as it was
\* and writes nothing.
C9_AdminClear ==
    \A c \in AdminInputs : \A gw \in GatewayBehaviours :
        LET o == After(c, gw)
        IN  /\ NoStoreWrite(o)
            /\ c.raw = MsgAdminClear => o.pending = <<>> /\ o.reply = ADMIN_CLEARED
            /\ c.raw # MsgAdminClear => o.pending = pending_confirmations

\* both senders have a pending action when the admin sends 'admin clear'
C9_Witness ==
    /\ DOMAIN pending_confirmations = Authorized
    /\ \E c \in AdminInputs : c.raw = MsgAdminClear /\ After(c, Quiet).pending = <<>>

JournalDone ==
    {i \in 1..Len(requests) : requests[i].pc = "done"}

\* C8: 'read pending, act, clear' is atomic per sender: no two requests
\* commit the same pending action, and the del of a confirmation does not
\* remove a pending action stored after that confirmation read its own.
C8_AtomicConfirm ==
    /\ \A i \in 1..Len(requests) : \A j \in 1..Len(requests) :
           (/\ i # j
            /\ requests[i].c.from = requests[j].c.from
            /\ requests[i].wrote # <<>>
            /\ requests[j].wrote # <<>>) => requests[i].gen # requests[j].gen
    /\ \A i \in 1..Len(requests) : ~requests[i].deleted_newer

\* C10: process_message returns a reply string for every request, no
\* exception reaches the webhook; and a request whose exception did reach it
\* is still answered, with the generic error text.
C10_ErrorsBecomeReplies ==
    \A i \in JournalDone :
        /\ ~requests[i].raised
        /\ requests[i].reply # ""
        /\ requests[i].raised => requests[i].reply = WEBHOOK_ERROR

----------------------------------------------------------------------------
(* Properties of the parser, over the calls of SpecParser *)

Returned(op) ==
    parser.op = op /\ parser.returned

\* parse_time_message returned a ShiftRecord
ParsedShift ==
    Returned("parse_time_message") /\ ~IsError(parser.result)

HasStandardToken(message) ==
    Contains(KwNormal, message) \/ Contains(KwStandard, message)

HasWeekendToken(message) ==
    \E day \in {KwSaturday, KwSunday, KwWeekend} : Contains(day, message)

\* the utterance reaches the time-range branch with a valid range
OnRangeBranch ==
    /\ Returned("parse_time_message")
    /\ parser.times # <<>>
    /\ ~HasStandardToken(parser.args[1])
    /\ ~HasWeekendToken(parser.args[1])

\* C11: every ShiftRecord the parser returns has overtime_hours >= 0,
\* total_hours > 0 and paid_hours <= total_hours, a range whose start and
\* end are equal and a range across midnight included.
C11_ShiftRecordInvariant ==
    ParsedShift =>
        /\ parser.result.overtime_hours >= 0
        /\ parser.result.total_hours > 0
        /\ parser.result.paid_hours <= parser.result.total_hours

\* C12: a weekday or standard-day record is paid DAILY_RATE plus
\* OVERTIME_RATE for every overtime hour, exactly, and a weekend record is
\* paid DAILY_RATE; 7:30-16:00 is paid 320.11 and 7:30-17:00 is paid 381.67.
\* Hours are minutes and pay is tenths of a penny.
C12_PayRule ==
    ParsedShift =>
        LET r == parser.result
        IN  /\ r.type = "weekday" =>
                   60 * r.total_pay = 60 * DAILY_RATE + r.overtime_hours * OVERTIME_RATE
            /\ r.type = "weekend" => r.total_pay = DAILY_RATE
            /\ r.type \in {"weekday", "weekend"}
            /\ OnRangeBranch /\ parser.times = <<450, 960>> => r.total_pay = 320110
            /\ OnRangeBranch /\ parser.times = <<450, 1020>> => r.total_pay = 381670

\* 'worked 7:30 till 17:00' was parsed and is paid 381.67
C12_Witness ==
    /\ ParsedShift
    /\ parser.args[1] = MsgOvertime
    /\ parser.result.overtime_hours = 60
    /\ parser.result.total_pay = 381670

\* C13: for valid 24-hour start and end times calculate_hours_between returns
\* end - start when end >= start and end + 24h - start when end < start, and
\* the result lies in [0, 24).  Hours are minutes.
C13_HoursBetween ==
    Returned("calculate_hours_between") =>
        LET start == parser.times[1]
            end == parser.times[2]
            hours == parser.result.hours
        IN  /\ end >= start => hours = end - start
            /\ end < start => hours = end + 24 * 60 - start
            /\ 0 <= hours /\ hours < 24 * 60

\* 22:00 to 6:00 crosses midnight and is 8 hours
C13_Witness ==
    /\ Returned("calculate_hours_between")
    /\ parser.times = <<1320, 360>>
    /\ parser.result.hours = 480

\* the fixed record of a standard day: 07:30-16:00, 8.5 hours, 7.5 paid
StandardDay(now) ==
    [type |-> "weekday", start_time |-> T0730, end_time |-> T1600,
     total_hours |-> 510, paid_hours |-> 450, overtime_hours |-> 0,
     total_pay |-> DAILY_RATE, date |-> now]

\* the fixed record of a weekend day: 08:00-13:00, 5 hours, all paid
WeekendDay(now) ==
    [type |-> "weekend", start_time |-> T0800, end_time |-> T1300,
     total_hours |-> 300, paid_hours |-> 300, overtime_hours |-> 0,
     total_pay |-> DAILY_RATE, date |-> now]

\* C14: the first match wins.  An utterance with a normal/standard token
\* returns the fixed standard-day record whatever else it contains; otherwise
\* one with saturday/sunday/weekend returns the fixed weekend record whatever
\* range it carries, valid or not; only otherwise is the range extracted and
\* validated, and a missing or invalid range gives a parse error.
C14_ParserPriority ==
    Returned("parse_time_message") =>
        LET message == parser.args[1]
            now == parser.args[2]
            r == parser.result
        IN  IF HasStandardToken(message) THEN r = StandardDay(now)
            ELSE IF HasWeekendToken(message) THEN r = WeekendDay(now)
            ELSE IF parser.times = <<>> THEN IsError(r)
            ELSE /\ ~IsError(r)
                 /\ r.type = "weekday"
                 /\ ToInt(SplitColon(r.start_time)[1]) * 60
                        + ToInt(SplitColon(r.start_time)[2]) = parser.times[1]
                 /\ ToInt(SplitColon(r.end_time)[1]) * 60
                        + ToInt(SplitColon(r.end_time)[2]) = parser.times[2]
                 /\ r.date = now

\* 'worked 25:00 till 7:30 saturday': the range is invalid and the weekend
\* record is returned all the same
C14_Witness ==
    /\ Returned("parse_time_message")
    /\ parser.times = <<>>
    /\ TimeRangeSearch(parser.args[1]) # <<>>
    /\ ~HasStandardToken(parser.args[1])
    /\ Contains(KwSaturday, parser.args[1])
    /\ parser.result = WeekendDay(parser.args[2])

\* C18: on the time-range branch overtime_hours is max(0, end - 16:00), which
\* depends on the end time alone: 10:00-17:00 has one hour of overtime and
\* 22:00-06:00 none; paid_hours is total_hours less one hour when total_hours
\* is over 6 and total_hours otherwise.  Hours are minutes.
C18_OvertimeByEndTime ==
    OnRangeBranch =>
        LET end == parser.times[2]
            r == parser.result
        IN  /\ ~IsError(r)
            /\ r.overtime_hours = IF end > 960 THEN end - 960 ELSE 0
            /\ r.paid_hours = IF r.total_hours > 6 * 60 THEN r.total_hours - 60
                              ELSE r.total_hours
            /\ parser.times = <<600, 1020>> => r.overtime_hours = 60
            /\ parser.times = <<1320, 360>> => r.overtime_hours = 0

\* 10:00-17:00 is a 7-hour shift with one hour of overtime and 6 hours paid
C18_Witness ==
    /\ OnRangeBranch
    /\ parser.times = <<600, 1020>>
    /\ parser.result.total_hours = 420
    /\ parser.result.overtime_hours = 60
    /\ parser.result.paid_hours = 360

----------------------------------------------------------------------------
(* Properties of the bot, continued *)

\* the date column of row i holds a real date
HoldsDate(values, i) ==
    /\ i <= Len(values)
    /\ values[i][1] # Blank
    /\ ~StartsWith(values[i][1], Placeholder)

\* the gateway behaviours under which log_time_entry stays on its primary
\* path: the scan and the update return
PrimaryPath ==
    {gw \in GatewayBehaviours : ~gw.scan /\ ~gw.update /\ (paye_sheet \/ gw.setup1)}

\* C15: on the primary write path the target is the first row after row 10
\* whose date column is empty or starts with '-', or the row after the last
\* when there is none; the write never lands on a row holding a real date,
\* never on rows 2..10 of a sheet that has them, and changes only columns
\* A..C of that one row.
C15_RowSelection ==
    \A s \in DOMAIN pending_confirmations : \A gw \in PrimaryPath :
        LET time_data == pending_confirmations[s].data
            r == log_time_entry(time_data, sheet, paye_sheet, gw)
            free == {i \in 11..Len(sheet) : ~HoldsDate(sheet, i)}
            n == IF free = {} THEN Len(sheet) + 1 ELSE SetMin(free)
        IN  /\ r.result
            /\ r.writes = <<[op |-> "update", row |-> n, data |-> RowData(time_data)]>>
            /\ ~HoldsDate(sheet, n)
            /\ Len(sheet) >= 10 => n > 10
            /\ Len(r.values) = (IF n > Len(sheet) THEN n ELSE Len(sheet))
            /\ \A i \in 1..Len(sheet) : i # n => r.values[i] = sheet[i]
            /\ SubSeq(r.values[n], 1, 3) = RowData(time_data)
            /\ n <= Len(sheet) => r.values[n][4] = sheet[n][4]

\* a confirmed entry went to the placeholder row 12 of the worksheet whose
\* row 3 is empty
C15_Witness ==
    /\ Len(log) = 1
    /\ log[1].op = "update"
    /\ log[1].row = 12
    /\ ~HoldsDate(sheet, 3)
    /\ HoldsDate(sheet, 12)
    /\ sheet[12][4] = Formula

\* the 'admin clear' of the admin
ClearInputs ==
    {c \in AdminInputs : Split(Strip(Lower(c.raw))) = <<TokAdmin, TokClear>>}

\* the YES and NO of the authorized senders
ConfirmInputs ==
    YesInputs \cup NoInputs

\* the messages that resolve nobody's pending action
UnresolvingInputs ==
    Inbound \ (ConfirmInputs \cup ShiftInputs \cup ClearInputs)

\* sender s has after the handler the pending action it had before
Kept(o, s) ==
    /\ s \in DOMAIN o.pending
    /\ o.pending[s] = pending_confirmations[s]

\* C16: a pending action lives until it is resolved.  Every message of
\* another sender but the admin's 'clear', and the sender's own help/status,
\* unrecognized and unparseable messages, leave it as it is; the sender's own
\* YES or NO and the admin's 'clear' remove it and the sender's own parseable
\* time request replaces it.  A YES or NO of one sender neither commits nor
\* clears the pending action of another.
C16_PendingLivesUntilResolved ==
    \A s \in DOMAIN pending_confirmations :
        /\ \A c \in UnresolvingInputs : \A gw \in GatewayFor(c) : Kept(After(c, gw), s)
        /\ \A c \in ShiftInputs :
               LET o == After(c, Quiet)
               IN  IF c.from = s
                   THEN s \in DOMAIN o.pending /\ o.pending[s].data = c.time_data
                   ELSE Kept(o, s)
        /\ \A c \in ClearInputs : \A gw \in GatewayBehaviours :
               s \notin DOMAIN After(c, gw).pending
        /\ \A c \in ConfirmInputs : \A gw \in GatewayBehaviours :
               LET o == After(c, gw)
               IN  IF c.from = s
                   THEN s \notin DOMAIN o.pending
                   ELSE /\ Kept(o, s)
                        /\ o.writes # <<>> =>
                               /\ c.from \in DOMAIN pending_confirmations
                               /\ \A i \in 1..Len(o.writes) :
                                      o.writes[i].data
                                          = RowData(pending_confirmations[c.from].data)

\* both senders have a pending action, for different shifts; the admin's YES
\* commits the admin's and leaves Gary's where it was
C16_Witness ==
    /\ DOMAIN pending_confirmations = Authorized
    /\ pending_confirmations[GARY_PHONE].data # pending_confirmations[ADMIN_PHONE].data
    /\ \E c \in YesInputs :
           /\ c.from = ADMIN_PHONE
           /\ After(c, Quiet).writes # <<>>
           /\ After(c, Quiet).pending = [x \in {GARY_PHONE} |-> pending_confirmations[GARY_PHONE]]

\* the messages that start with the admin prefix, from whoever sends them
AdminPrefixed ==
    {c \in Inbound : StartsWith(Strip(Lower(c.raw)), TokAdmin)}

\* what the admin command handler can answer
AdminReplies ==
    {ADMIN_HELP, ADMIN_STATUS, ADMIN_STATS, ADMIN_STATS_ERROR, ADMIN_TEST_DONE,
     ADMIN_CLEARED, ADMIN_NO_ENTRIES, ADMIN_LAST, ADMIN_LAST_ERROR, ADMIN_UNKNOWN}

\* what the ordinary flow can answer to a message that is no YES and no NO
OrdinaryReplies ==
    {USAGE_HINT, FORMAT_HELP, CONFIRM_PROMPT, HELP_TEXT, HELP_TEXT_ADMIN}

\* those of them that hold a time keyword
AdminPrefixedTime ==
    {c \in AdminPrefixed : is_time_message(Strip(Lower(c.raw)))}

\* C17: a message that starts with the admin prefix reaches the admin command
\* handler only when the admin sends it.  From the standard user the same
\* text takes the ordinary flow and 'admin clear' wipes nothing; from the
\* admin the prefix wins over the time keywords the text may contain, so
\* that nothing is parsed and nothing becomes pending.
C17_AdminOnly ==
    \A c \in AdminPrefixed : \A gw \in GatewayBehaviours :
        LET o == After(c, gw)
        IN  CASE c.from = ADMIN_PHONE ->
                   /\ o.reply \in AdminReplies
                   /\ ~o.parsed
                   /\ o.pending \in {pending_confirmations, <<>>}
                   /\ c \in AdminPrefixedTime => o.reply = ADMIN_UNKNOWN
              [] c.from = GARY_PHONE ->
                   /\ o.reply \in OrdinaryReplies
                   /\ o.reply \notin AdminReplies
                   /\ \A s \in DOMAIN pending_confirmations :
                          s # GARY_PHONE => Kept(o, s)
                   /\ c.raw = MsgAdminClear =>
                          o.pending = pending_confirmations /\ o.reply = USAGE_HINT
                   /\ c \in AdminPrefixedTime => o.parsed
              [] OTHER ->
                   o.reply = DENIED /\ o.pending = pending_confirmations

\* both senders have a pending action and the standard user sends 'Admin
\* Clear': the usage hint is the answer and both actions stay
C17_Witness ==
    /\ DOMAIN pending_confirmations = Authorized
    /\ \E c \in AdminPrefixed :
           /\ c.from = GARY_PHONE
           /\ c.raw = MsgAdminClear
           /\ After(c, Quiet).reply = USAGE_HINT
           /\ After(c, Quiet).pending = pending_confirmations

\* C19: in every reachable state each entry of the confirmation store is
\* keyed by a sender of the allow-list, one entry to a sender, its kind is
\* 'time_entry' and its payload is a parsed shift record, never the error
\* record of the parser.
C19_StoreTypeInvariant ==
    /\ DOMAIN pending_confirmations \subseteq Authorized
    /\ \A s \in DOMAIN pending_confirmations :
           LET p == pending_confirmations[s]
           IN  /\ DOMAIN p = {"type", "data", "original_message"}
               /\ p.type = "time_entry"
               /\ ~IsError(p.data)
               /\ p.data.type \in {"weekday", "weekend"}
               /\ is_valid_24hour_time(p.data.start_time)
               /\ is_valid_24hour_time(p.data.end_time)
               /\ p.data.date \in Dates

\* both senders have a pending action, Gary's is a weekend shift, and an
\* utterance that does not parse leaves the store as it is
C19_Witness ==
    /\ DOMAIN pending_confirmations = Authorized
    /\ pending_confirmations[GARY_PHONE].data.type = "weekend"
    /\ \E c \in ErrorInputs :
           /\ c.from = GARY_PHONE
           /\ After(c, Quiet).pending = pending_confirmations

\* the success summaries of a confirmation
LoggedReplies ==
    {LOGGED_OVERTIME, LOGGED_WEEKEND, LOGGED_NORMAL}

\* worksheet `after` is worksheet `before` with row n now holding row_data in
\* columns A..C and nothing else changed
OneRowWritten(before, after, n, row_data) ==
    /\ n <= Len(after)
    /\ SubSeq(after[n], 1, 3) = row_data
    /\ Len(after) = (IF n > Len(before) THEN n ELSE Len(before))
    /\ \A i \in 1..Len(before) : i # n => after[i] = before[i]

\* C20: with messages handled one at a time and every gateway write either
\* taking effect and returning or raising without effect, a YES answered
\* with a success summary has written exactly one row, which carries the
\* pending (date, start, end); a YES answered with the failure text has
\* written no row; no confirmation writes two rows.
C20_ReplyMatchesOutcome ==
    \A c \in YesInputs : \A gw \in GatewayBehaviours :
        LET o == After(c, gw)
        IN  /\ Len(o.writes) <= 1
            /\ c.from \in DOMAIN pending_confirmations =>
                   LET row_data == RowData(pending_confirmations[c.from].data)
                   IN  /\ o.reply \in LoggedReplies \cup {LOG_FAILED}
                       /\ o.reply \in LoggedReplies =>
                              /\ Len(o.writes) = 1
                              /\ o.writes[1].data = row_data
                              /\ OneRowWritten(sheet, o.values, o.writes[1].row, row_data)
                       /\ o.reply = LOG_FAILED =>
                              /\ o.writes = <<>>
                              /\ o.values = sheet
            /\ c.from \notin DOMAIN pending_confirmations =>
                   o.reply = NO_PENDING /\ o.writes = <<>> /\ o.values = sheet

\* a confirmation whose update raised was logged by the append_row retry:
\* one row was written and the sender has nothing pending any more
C20_Witness ==
    /\ Len(log) = 1
    /\ log[1].op = "append_row"
    /\ log[1].row = Len(sheet)
    /\ SubSeq(sheet[Len(sheet)], 1, 3) = log[1].data
    /\ pending_confirmations = <<>>

====
